---- MODULE Spec2Model ----
(***************************************************************************)
(* Model of cel_amqp.c: the AMQP backend for Asterisk's Channel Event      *)
(* Logging.  Three threads of control are modelled:                        *)
(*   - the module thread (load_module, reload_module, unload_module and    *)
(*     the load_config they call), one operation at a time;                *)
(*   - the CEL dispatch thread running the handler amqp_cel_log;           *)
(*   - the environment: the operator editing cel_amqp.conf and the         *)
(*     connection manager (res_amqp) gaining or losing connections.        *)
(* A text is a sequence of symbols; the empty C string is << >>.           *)
(***************************************************************************)
EXTENDS Integers, Sequences, FiniteSets, TLC

\* ---------------------------------------------------------------- bounds
MaxExtraLen == 3
MaxSnapshots == 2

\* ------------------------------------------------------------- constants
NULL == 0
NoHandle == "NULL"
ConnNames == {"a"}
ExtraAlphabet == {"[", "]", "1"}

\* Contents cel_amqp.conf can have; valid = FALSE is a file the config
\* parser rejects.  The first is what the registered defaults give for
\* exchange and queue.
FileContents ==
    { [valid |-> TRUE,  connection |-> "a", exchange |-> "",  queue |-> "asterisk_cel"],
      [valid |-> TRUE,  connection |-> "a", exchange |-> "x", queue |-> "q"],
      [valid |-> FALSE, connection |-> "",  exchange |-> "",  queue |-> ""] }

\* ------------------------------------------------------------ JSON values
JNull == [type |-> "null"]
JString(t) == [type |-> "string", value |-> t]
JNumber(n) == [type |-> "number", value |-> n]
JArray(elems) == [type |-> "array", value |-> elems]
NoJson == [type |-> "NULL"]

\* All texts of at most n symbols over the alphabet.
RECURSIVE TextsUpTo(_)
TextsUpTo(n) ==
    IF n = 0 THEN { << >> }
    ELSE LET shorter == TextsUpTo(n - 1)
         IN  shorter \cup { Append(t, c) : t \in { s \in shorter : Len(s) = n - 1 },
                                           c \in ExtraAlphabet }

ExtraTexts == TextsUpTo(MaxExtraLen)

\* Recursive-descent parse of one JSON value starting at position i.
\* Result: [ok, val, next].
RECURSIVE ParseValue(_, _)
ParseValue(t, i) ==
    IF i > Len(t) THEN [ok |-> FALSE, val |-> NoJson, next |-> i]
    ELSE IF t[i] = "1" THEN [ok |-> TRUE, val |-> JNumber(1), next |-> i + 1]
    ELSE IF t[i] = "[" THEN
        IF i + 1 <= Len(t) /\ t[i + 1] = "]"
        THEN [ok |-> TRUE, val |-> JArray(<< >>), next |-> i + 2]
        ELSE LET inner == ParseValue(t, i + 1)
             IN  IF inner.ok /\ inner.next <= Len(t) /\ t[inner.next] = "]"
                 THEN [ok |-> TRUE, val |-> JArray(<<inner.val>>), next |-> inner.next + 1]
                 ELSE [ok |-> FALSE, val |-> NoJson, next |-> i]
    ELSE [ok |-> FALSE, val |-> NoJson, next |-> i]

\* ast_json_load_string(text, NULL): decode flags 0, so the top level has
\* to be a container and nothing may follow the value.  NoJson on error.
ast_json_load_string(t) ==
    IF Len(t) = 0 \/ t[1] # "["
    THEN NoJson
    ELSE LET r == ParseValue(t, 1)
         IN  IF r.ok /\ r.next = Len(t) + 1 THEN r.val ELSE NoJson

\* ------------------------------------------------------------------ state
VARIABLES
    file,         \* contents of cel_amqp.conf on disk
    fileChanged,  \* the file changed since the config loader last read it
    resolvable,   \* connection names ast_amqp_get_connection can resolve now
    heap,         \* every cel_amqp_conf snapshot that was ever installed
    confs,        \* the global object holder: a heap index, or NULL
    registered,   \* amqp_cel_log is registered as a CEL backend
    mpc,          \* position of the module thread
    mop,          \* the operation the module thread runs: load, reload, unload
    mconf,        \* load_config's local conf reference
    mres,         \* what the last load_config returned
    pre,          \* what the last reload_module found when it started
    hpc,          \* position of amqp_cel_log
    hconf,        \* the handler's conf reference
    hsnap,        \* the fields of that snapshot when the reference was taken
    hrec,         \* the filled ast_cel_event_record
    hfault,       \* which library call fails for this event
    extra,        \* the handler's local extra
    json,         \* the handler's local json
    str,          \* the handler's local str
    pub,          \* the arguments ast_amqp_basic_publish was called with
    pubCount,     \* calls of ast_amqp_basic_publish made for this event
    acq,          \* references the handler acquired, per local
    rel           \* references released on the handler's behalf, per local

mvars == <<mpc, mop, mconf, mres, pre>>
hvars == <<hpc, hconf, hsnap, hrec, hfault, extra, json, str, pub, pubCount, acq, rel>>
envvars == <<file, fileChanged, resolvable>>
vars == <<file, fileChanged, resolvable, heap, confs, registered,
          mpc, mop, mconf, mres, pre,
          hpc, hconf, hsnap, hrec, hfault, extra, json, str, pub, pubCount, acq, rel>>

\* ------------------------------------------------- configuration snapshots
\* struct cel_amqp_conf with its cel_amqp_global_conf: the three string
\* fields, the amqp pointer, whether the snapshot owns a reference on the
\* connection the pointer names, and the snapshot's own reference count.
NoFields == [connection |-> "", exchange |-> "", queue |-> "", amqp |-> NoHandle, held |-> FALSE]

Fields(s) == [connection |-> s.connection, exchange |-> s.exchange, queue |-> s.queue,
              amqp |-> s.amqp, held |-> s.held]

InstalledFields == IF confs = NULL THEN NoFields ELSE Fields(heap[confs])

NoPre == [confs |-> NULL, fields |-> NoFields, unresolved |-> FALSE, lookupOk |-> FALSE]

\* conf_alloc + conf_global_create + the parsed options of the file.
conf_alloc(f) ==
    [connection |-> f.connection, exchange |-> f.exchange, queue |-> f.queue,
     amqp |-> NoHandle, held |-> FALSE, refs |-> 1]

\* ast_amqp_get_connection(name): a referenced connection, or NULL.
ast_amqp_get_connection(n) == IF n \in resolvable THEN n ELSE NoHandle

\* The "refresh" both setup_amqp and load_config do on a snapshot in two
\* statements: drop the reference, then look the connection up again.
ReleaseAmqp(s) == [s EXCEPT !.held = FALSE]

AcquireAmqp(s) ==
    LET c == ast_amqp_get_connection(s.connection)
    IN  [s EXCEPT !.amqp = c, !.held = (c # NoHandle)]

\* setup_amqp on the pending snapshot: [res, conf].
setup_amqp(pending) ==
    LET c == AcquireAmqp(ReleaseAmqp(pending))
    IN  [res |-> IF c.amqp = NoHandle THEN -1 ELSE 0, conf |-> c]

\* ao2_cleanup of a snapshot reference; conf_dtor and conf_global_dtor run
\* when the last one goes.
Unref(h, id) ==
    IF id = NULL THEN h
    ELSE IF h[id].refs = 1
         THEN [h EXCEPT ![id].refs = 0, ![id].amqp = NoHandle, ![id].held = FALSE]
         ELSE [h EXCEPT ![id].refs = h[id].refs - 1]

Ref(h, id) == IF id = NULL THEN h ELSE [h EXCEPT ![id].refs = h[id].refs + 1]

\* aco_process_config(&cfg_info, reload) for the cfg_info of lines 166-169:
\* on a reload of an untouched file nothing is done; otherwise a pending
\* snapshot is allocated with conf_alloc and filled from the file, the
\* pre_apply_config callback setup_amqp runs on it, and only if both succeed
\* is it swapped into confs, whose reference on the old snapshot is dropped.
\* Result: status, new heap, new confs.
aco_process_config(reload) ==
    IF reload /\ ~fileChanged
    THEN [status |-> "ACO_PROCESS_UNCHANGED", heap |-> heap, confs |-> confs]
    ELSE IF ~file.valid
    THEN [status |-> "ACO_PROCESS_ERROR", heap |-> heap, confs |-> confs]
    ELSE LET s == setup_amqp(conf_alloc(file))
         IN  IF s.res # 0
             THEN [status |-> "ACO_PROCESS_ERROR", heap |-> heap, confs |-> confs]
             ELSE [status |-> "ACO_PROCESS_OK",
                   heap |-> Append(Unref(heap, confs), s.conf),
                   confs |-> Len(heap) + 1]

\* ----------------------------------------------------------- event records
EventTypes == {"AST_CEL_CHANNEL_START", "AST_CEL_USER_DEFINED"}
UserNames == { << >>, <<"custom_x">> }
Faults == {"none", "fill", "create", "pack", "dump"}

\* ast_cel_get_type_name, which ast_cel_fill_record puts in event_name.
ast_cel_get_type_name(ty) ==
    IF ty = "AST_CEL_USER_DEFINED" THEN <<"USER_DEFINED">> ELSE <<"CHAN_START">>

\* What ast_cel_fill_record fills in for an event.
Record(ty, udn, ex) ==
    [event_type |-> ty, event_name |-> ast_cel_get_type_name(ty),
     user_defined_name |-> udn, extra |-> ex,
     account_code |-> << >>, caller_id_num |-> <<"100">>, caller_id_name |-> <<"alice">>,
     caller_id_ani |-> << >>, caller_id_rdnis |-> << >>, caller_id_dnid |-> <<"200">>,
     extension |-> <<"100">>, context |-> <<"default">>, channel_name |-> <<"SIP/alice-1">>,
     application_name |-> <<"Dial">>, application_data |-> <<"SIP/bob">>,
     event_time |-> <<"0">>, amaflag |-> 3, unique_id |-> <<"u1">>, linked_id |-> <<"u1">>,
     user_field |-> << >>, peer |-> << >>, peer_account |-> << >>]

Records == { Record(ty, udn, ex) : ty \in EventTypes, udn \in UserNames, ex \in ExtraTexts }

\* The events dispatched while the module thread is at work: one record per
\* kind of extra text (empty, a JSON array, not JSON).
LifecycleRecords ==
    { Record("AST_CEL_USER_DEFINED", <<"custom_x">>, ex) :
         ex \in { << >>, <<"[", "1", "]">>, <<"1">> } }

NoRecord == Record("AST_CEL_CHANNEL_START", << >>, << >>)

ast_json_timeval(tv) == JString(<<"T">> \o tv)

ast_channel_amaflags2string(flag) ==
    CASE flag = 1 -> <<"OMIT">>
      [] flag = 2 -> <<"BILLING">>
      [] flag = 3 -> <<"DOCUMENTATION">>
      [] OTHER -> <<"Unknown">>

\* The name as it would be without the user-defined case of lines 230-232.
EventName_NoUserDefined(r) == r.event_name

\* Lines 228-232: the name that goes in the document.
EventName(r) ==
    IF r.event_type = "AST_CEL_USER_DEFINED" THEN r.user_defined_name ELSE r.event_name

\* The extra as it would be without the fallback of line 242: a text that
\* does not parse is given up for null.
ExtraValue_NoFallback(t, createOk) ==
    IF Len(t) = 0 THEN JNull
    ELSE LET parsed == ast_json_load_string(t)
         IN  IF parsed # NoJson THEN parsed ELSE JNull

\* Lines 234-244: the value of the local extra; createOk is whether
\* ast_json_string_create succeeds when it is called.
ExtraValue(t, createOk) ==
    IF Len(t) = 0 THEN JNull
    ELSE LET parsed == ast_json_load_string(t)
         IN  IF parsed # NoJson THEN parsed
             ELSE IF createOk THEN JString(t) ELSE NoJson

\* Lines 246-284: the object ast_json_pack builds.
PackDocument(nm, r, ex) ==
    [event_name |-> JString(nm),
     account_code |-> JString(r.account_code),
     caller_id |-> [num |-> JString(r.caller_id_num),
                    name |-> JString(r.caller_id_name),
                    ani |-> JString(r.caller_id_ani),
                    rdnis |-> JString(r.caller_id_rdnis),
                    dnid |-> JString(r.caller_id_dnid)],
     extension |-> JString(r.extension),
     context |-> JString(r.context),
     channel |-> JString(r.channel_name),
     application |-> JString(r.application_name),
     app_data |-> JString(r.application_data),
     event_time |-> ast_json_timeval(r.event_time),
     amaflags |-> JString(ast_channel_amaflags2string(r.amaflag)),
     unique_id |-> JString(r.unique_id),
     linked_id |-> JString(r.linked_id),
     user_field |-> JString(r.user_field),
     peer |-> JString(r.peer),
     peer_acount |-> JString(r.peer_account),
     extra |-> ex]

NoDoc == [missing |-> TRUE]
NoPub == [amqp |-> NoHandle, held |-> FALSE, exchange |-> "", queue |-> "",
          body |-> NoDoc, res |-> 0]
NoCounts == [conf |-> 0, json |-> 0, str |-> 0, extra |-> 0]

\* A JSON value whose reference count is real: json_null() is a singleton
\* that ast_json_unref leaves alone, NULL is no value at all.
Counted(v) == v # NoJson /\ v # JNull

\* ------------------------------------------------------------------- Init
Init ==
    /\ file = [valid |-> TRUE, connection |-> "a", exchange |-> "", queue |-> "asterisk_cel"]
    /\ fileChanged = TRUE
    /\ resolvable = ConnNames
    /\ heap = << >>
    /\ confs = NULL
    /\ registered = FALSE
    /\ mpc = "unloaded"
    /\ mop = "none"
    /\ mconf = NULL
    /\ mres = 0
    /\ pre = NoPre
    /\ hpc = "idle"
    /\ hconf = NULL
    /\ hsnap = NoFields
    /\ hrec = NoRecord
    /\ hfault = "none"
    /\ extra = NoJson
    /\ json = NoDoc
    /\ str = NoDoc
    /\ pub = NoPub
    /\ pubCount = 0
    /\ acq = NoCounts
    /\ rel = NoCounts

Running == hpc # "crashed"

\* ------------------------------------------------------------ environment
\* The operator saves another cel_amqp.conf.
EditFile ==
    /\ Running
    /\ \E f \in FileContents \ {file} : file' = f
    /\ fileChanged' = TRUE
    /\ UNCHANGED <<resolvable, heap, confs, registered, mvars, hvars>>

\* res_amqp gains or loses a connection (amqp.conf reloaded, broker up or
\* down): ast_amqp_get_connection answers differently from now on.
ConnectionsChange ==
    /\ Running
    /\ \E r \in (SUBSET ConnNames) \ {resolvable} : resolvable' = r
    /\ UNCHANGED <<file, fileChanged, heap, confs, registered, mvars, hvars>>

\* ---------------------------------------------------------- module thread
\* The connection name the configuration of a reload names: the file's when
\* the file is read again, the installed snapshot's when it is unchanged.
ReloadNamesUnresolved ==
    IF fileChanged
    THEN file.valid /\ file.connection \notin resolvable
    ELSE confs # NULL /\ heap[confs].connection \notin resolvable

\* load_module up to and including aco_process_config in load_config(0).
load_module ==
    /\ Running
    /\ mpc = "unloaded"
    /\ Len(heap) < MaxSnapshots
    /\ LET p == aco_process_config(FALSE)
       IN  /\ heap' = p.heap
           /\ confs' = p.confs
           /\ IF p.status = "ACO_PROCESS_ERROR"
              THEN mpc' = "unloaded" /\ mres' = -1
              ELSE mpc' = "lc_ref" /\ mres' = mres
    /\ mop' = "load"
    /\ pre' = NoPre
    /\ fileChanged' = FALSE
    /\ UNCHANGED <<file, resolvable, registered, mconf, hvars>>

\* reload_module up to and including aco_process_config in load_config(1).
reload_module ==
    /\ Running
    /\ mpc = "loaded"
    /\ fileChanged => Len(heap) < MaxSnapshots
    /\ LET p == aco_process_config(TRUE)
       IN  /\ heap' = p.heap
           /\ confs' = p.confs
           /\ IF p.status = "ACO_PROCESS_ERROR"
              THEN mpc' = "loaded" /\ mres' = -1
              ELSE mpc' = "lc_ref" /\ mres' = mres
           /\ pre' = [confs |-> confs, fields |-> InstalledFields,
                      unresolved |-> ReloadNamesUnresolved,
                      lookupOk |-> p.status = "ACO_PROCESS_OK"]
    /\ mop' = "reload"
    /\ fileChanged' = FALSE
    /\ UNCHANGED <<file, resolvable, registered, mconf, hvars>>

\* load_config lines 322-326.
load_config_ref ==
    /\ Running
    /\ mpc = "lc_ref"
    /\ IF confs = NULL
       THEN /\ mres' = -1
            /\ mpc' = IF mop = "reload" THEN "loaded" ELSE "unloaded"
            /\ UNCHANGED <<mconf, heap>>
       ELSE /\ mconf' = confs
            /\ heap' = Ref(heap, confs)
            /\ mpc' = "lc_cleanup"
            /\ mres' = mres
    /\ UNCHANGED <<envvars, confs, registered, mop, pre, hvars>>

\* load_config line 329.
load_config_cleanup ==
    /\ Running
    /\ mpc = "lc_cleanup"
    /\ heap' = [heap EXCEPT ![mconf] = ReleaseAmqp(@)]
    /\ mpc' = "lc_get"
    /\ UNCHANGED <<envvars, confs, registered, mop, mconf, mres, pre, hvars>>

\* load_config lines 330-338, its scoped release of conf, and what the
\* caller does with the result: reload_module returns it, load_module
\* registers the backend or declines.
load_config_get ==
    /\ Running
    /\ mpc = "lc_get"
    /\ LET s == AcquireAmqp(heap[mconf])
           ok == s.amqp # NoHandle
       IN  /\ heap' = Unref([heap EXCEPT ![mconf] = s], mconf)
           /\ mres' = IF ok THEN 0 ELSE -1
           /\ pre' = IF mop = "reload" THEN [pre EXCEPT !.lookupOk = @ \/ ok] ELSE pre
           /\ IF mop = "reload"
              THEN mpc' = "loaded" /\ registered' = registered
              ELSE IF ~ok
              THEN mpc' = "unloaded" /\ registered' = registered
              ELSE \E regOk \in BOOLEAN :
                      /\ mpc' = IF regOk THEN "loaded" ELSE "unloaded"
                      /\ registered' = IF regOk THEN TRUE ELSE registered
    /\ mconf' = NULL
    /\ UNCHANGED <<envvars, confs, mop, hvars>>

\* unload_module lines 375-376.
unload_module_release ==
    /\ Running
    /\ mpc = "loaded"
    /\ heap' = Unref(heap, confs)
    /\ confs' = NULL
    /\ mpc' = "ul_unregister"
    /\ mop' = "unload"
    /\ pre' = NoPre
    /\ UNCHANGED <<envvars, registered, mconf, mres, hvars>>

\* unload_module lines 377-381.
unload_module_unregister ==
    /\ Running
    /\ mpc = "ul_unregister"
    /\ registered' = FALSE
    /\ mpc' = "unloaded"
    /\ UNCHANGED <<envvars, heap, confs, mop, mconf, mres, pre, hvars>>

\* ---------------------------------------------------------- amqp_cel_log
\* The assertion of line 221.
EntryAssertion == confs # NULL /\ heap[confs].amqp # NoHandle

\* The CEL core calls the registered backend; lines 204-221.  A failed
\* ast_assert aborts in a build that crashes on assertions and is skipped
\* in any other.
amqp_cel_log_ref ==
    /\ Running
    /\ registered
    /\ hpc = "idle"
    /\ hconf' = confs
    /\ hsnap' = InstalledFields
    /\ heap' = Ref(heap, confs)
    /\ acq' = [NoCounts EXCEPT !.conf = IF confs = NULL THEN 0 ELSE 1]
    /\ rel' = NoCounts
    /\ \/ hpc' = "refd"
       \/ ~EntryAssertion /\ hpc' = "crashed"
    /\ UNCHANGED <<envvars, confs, registered, mvars,
                   hrec, hfault, extra, json, str, pub, pubCount>>

\* Lines 223-294: fill the record, pick the name, build extra, pack the
\* document and dump it.  Only locals are touched.  rs is the set the
\* event's record is drawn from.
amqp_cel_log_format(rs) ==
    /\ Running
    /\ hpc = "refd"
    /\ \E r \in rs, fault \in Faults :
          LET ex == ExtraValue(r.extra, fault # "create")
              createCalled == Len(r.extra) > 0 /\ ast_json_load_string(r.extra) = NoJson
              packOk == ex # NoJson /\ fault # "pack"
              dumpOk == packOk /\ fault # "dump"
              doc == IF packOk THEN PackDocument(EventName(r), r, ex) ELSE NoDoc
          IN  /\ fault = "create" => createCalled
              /\ hfault' = fault
              /\ IF fault = "fill"
                 THEN /\ hrec' = NoRecord
                      /\ extra' = NoJson
                      /\ json' = NoDoc
                      /\ str' = NoDoc
                      /\ acq' = acq
                      /\ hpc' = "cleanup"
                 ELSE /\ hrec' = r
                      /\ extra' = ex
                      /\ json' = doc
                      /\ str' = IF dumpOk THEN doc ELSE NoDoc
                      /\ acq' = [acq EXCEPT !.extra = IF Counted(ex) THEN 1 ELSE 0,
                                            !.json = IF packOk THEN 1 ELSE 0,
                                            !.str = IF dumpOk THEN 1 ELSE 0]
                      /\ hpc' = IF dumpOk THEN "formatted" ELSE "cleanup"
    /\ UNCHANGED <<envvars, heap, confs, registered, mvars,
                   hconf, hsnap, pub, pubCount, rel>>

\* Lines 296-306.  conf->global->amqp is read through the handler's
\* reference; with no reference at all the read is a null dereference.  A
\* null handle is passed on to the publish primitive, which fails or
\* faults on it.
amqp_cel_log_publish ==
    /\ Running
    /\ hpc = "formatted"
    /\ IF hconf = NULL
       THEN /\ hpc' = "crashed"
            /\ UNCHANGED <<pub, pubCount>>
       ELSE /\ pubCount' = pubCount + 1
            /\ \E res \in {0, -1} :
                  /\ heap[hconf].amqp = NoHandle => res = -1
                  /\ pub' = [amqp |-> heap[hconf].amqp, held |-> heap[hconf].held,
                             exchange |-> heap[hconf].exchange,
                             queue |-> heap[hconf].queue,
                             body |-> str, res |-> res]
            /\ \/ hpc' = "cleanup"
               \/ heap[hconf].amqp = NoHandle /\ hpc' = "crashed"
    /\ UNCHANGED <<envvars, heap, confs, registered, mvars,
                   hconf, hsnap, hrec, hfault, extra, json, str, acq, rel>>

\* The scoped cleanups of lines 204-207, in reverse order of declaration:
\* ast_json_free(str), ast_json_unref(extra), ast_json_unref(json), which
\* destroys the document and with it the reference on extra that the "o"
\* of ast_json_pack took over, and ao2_cleanup(conf).  Releasing a
\* reference twice is a use after free: the handler returns or faults.
amqp_cel_log_exit ==
    /\ Running
    /\ hpc = "cleanup"
    /\ LET extraByScope == IF Counted(extra) THEN 1 ELSE 0
           extraByDocument == IF json # NoDoc /\ Counted(extra) THEN 1 ELSE 0
       IN  /\ rel' = [conf |-> IF hconf = NULL THEN 0 ELSE 1,
                      json |-> IF json = NoDoc THEN 0 ELSE 1,
                      str |-> IF str = NoDoc THEN 0 ELSE 1,
                      extra |-> extraByScope + extraByDocument]
           /\ \/ hpc' = "done"
              \/ extraByScope + extraByDocument > 1 /\ hpc' = "crashed"
    /\ heap' = Unref(heap, hconf)
    /\ UNCHANGED <<envvars, confs, registered, mvars,
                   hconf, hsnap, hrec, hfault, extra, json, str, pub, pubCount, acq>>

\* The handler has returned; its locals are gone.
amqp_cel_log_return ==
    /\ Running
    /\ hpc = "done"
    /\ hpc' = "idle"
    /\ hconf' = NULL
    /\ hsnap' = NoFields
    /\ hrec' = NoRecord
    /\ hfault' = "none"
    /\ extra' = NoJson
    /\ json' = NoDoc
    /\ str' = NoDoc
    /\ pub' = NoPub
    /\ pubCount' = 0
    /\ acq' = NoCounts
    /\ rel' = NoCounts
    /\ UNCHANGED <<envvars, heap, confs, registered, mvars>>

\* ---------------------------------------------------------- specifications
Next ==
    \/ EditFile
    \/ ConnectionsChange
    \/ load_module
    \/ reload_module
    \/ load_config_ref
    \/ load_config_cleanup
    \/ load_config_get
    \/ unload_module_release
    \/ unload_module_unregister
    \/ amqp_cel_log_ref
    \/ amqp_cel_log_format(LifecycleRecords)
    \/ amqp_cel_log_publish
    \/ amqp_cel_log_exit
    \/ amqp_cel_log_return

Spec == Init /\ [][Next]_vars

\* The formatter on its own: the module is loaded with the first
\* configuration and stays so, and events with every record of Records
\* are handled one after the other.
InitFmt ==
    /\ file = [valid |-> TRUE, connection |-> "a", exchange |-> "", queue |-> "asterisk_cel"]
    /\ fileChanged = FALSE
    /\ resolvable = ConnNames
    /\ heap = << [connection |-> "a", exchange |-> "", queue |-> "asterisk_cel",
                  amqp |-> "a", held |-> TRUE, refs |-> 1] >>
    /\ confs = 1
    /\ registered = TRUE
    /\ mpc = "loaded"
    /\ mop = "load"
    /\ mconf = NULL
    /\ mres = 0
    /\ pre = NoPre
    /\ hpc = "idle"
    /\ hconf = NULL
    /\ hsnap = NoFields
    /\ hrec = NoRecord
    /\ hfault = "none"
    /\ extra = NoJson
    /\ json = NoDoc
    /\ str = NoDoc
    /\ pub = NoPub
    /\ pubCount = 0
    /\ acq = NoCounts
    /\ rel = NoCounts

NextFmt ==
    \/ amqp_cel_log_ref
    \/ amqp_cel_log_format(Records)
    \/ amqp_cel_log_publish
    \/ amqp_cel_log_exit
    \/ amqp_cel_log_return

SpecFmt == InitFmt /\ [][NextFmt]_vars

\* ------------------------------------------------------------- properties
\* The handler has filled a record and is past the formatting code.
Formatted == hpc \in {"formatted", "cleanup", "done"} /\ hfault # "fill"

SchemaKeys ==
    {"event_name", "account_code", "caller_id", "extension", "context", "channel",
     "application", "app_data", "event_time", "amaflags", "unique_id", "linked_id",
     "user_field", "peer", "peer_account", "extra"}

CallerIdKeys == {"num", "name", "ani", "rdnis", "dnid"}

\* C1: every successful publish call gets the exchange, the queue and the
\* connection handle the handler's snapshot had when the reference was
\* taken, and the snapshot owns its reference on that handle then and at the
\* call: no null, released or not yet re-acquired handle is ever published
\* with.
C1_PublishUsesOneLiveSnapshot ==
    (pubCount > 0 /\ pub.res = 0) =>
        /\ pub.exchange = hsnap.exchange
        /\ pub.queue = hsnap.queue
        /\ pub.amqp = hsnap.amqp
        /\ pub.amqp # NoHandle
        /\ hsnap.held
        /\ pub.held

\* C2: a reload whose configuration names a connection that cannot be
\* resolved, and in which no lookup succeeds, returns failure and leaves the
\* global holder and every field of the installed snapshot as they were.
C2_FailedReloadLeavesPairUnchanged ==
    (mpc = "loaded" /\ mop = "reload" /\ pre.unresolved /\ ~pre.lookupOk) =>
        /\ mres = -1
        /\ confs = pre.confs
        /\ InstalledFields = pre.fields

\* C3: no step changes a field of the snapshot that is installed, for as
\* long as that snapshot is alive.
C3_InstalledSnapshotNeverMutated ==
    [][(confs # NULL /\ heap'[confs].refs > 0)
          => Fields(heap'[confs]) = Fields(heap[confs])]_vars

\* C4: whenever the module is loaded, its backend registered and no module
\* operation in progress, a snapshot is installed whose connection handle is
\* non-null and referenced.
C4_InstalledHandleLive ==
    (registered /\ mpc = "loaded") =>
        /\ confs # NULL
        /\ heap[confs].amqp # NoHandle
        /\ heap[confs].held

\* C5: every document the handler builds has exactly the keys of the schema,
\* and its caller_id exactly the five caller keys.
C5_DocumentHasSchemaKeys ==
    json # NoDoc =>
        /\ DOMAIN json = SchemaKeys
        /\ DOMAIN json.caller_id = CallerIdKeys

\* C6: the document's extra is null for an empty extra text, the parsed
\* value (a container, not a string) for a text that parses, and the raw
\* text as a string for one that does not; and when no library call fails
\* the document is built and dumped whatever the extra text is.
C6_ExtraThreeCases ==
    /\ (Formatted /\ json # NoDoc) =>
          /\ "extra" \in DOMAIN json
          /\ Len(hrec.extra) = 0 => json.extra.type = "null"
          /\ (Len(hrec.extra) > 0 /\ ast_json_load_string(hrec.extra) # NoJson) =>
                /\ json.extra = ast_json_load_string(hrec.extra)
                /\ json.extra.type = "array"
          /\ (Len(hrec.extra) > 0 /\ ast_json_load_string(hrec.extra) = NoJson) =>
                json.extra = [type |-> "string", value |-> hrec.extra]
          /\ hrec.extra = <<"[", "1", "]">> =>
                json.extra = [type |-> "array",
                              value |-> << [type |-> "number", value |-> 1] >>]
          /\ hrec.extra = <<"1">> => json.extra = [type |-> "string", value |-> <<"1">>]
    /\ (Formatted /\ hfault = "none") => (json # NoDoc /\ str # NoDoc)

C6_Witness ==
    /\ hpc = "formatted"
    /\ hrec.extra = <<"1", "]">>
    /\ json # NoDoc
    /\ json.extra = [type |-> "string", value |-> <<"1", "]">>]

\* C7: a handler that has finished, by returning or by faulting, has called
\* the publish primitive never when filling, building or dumping failed and
\* exactly once when none did; and never more than once.
C7_PublishExactlyOnce ==
    /\ pubCount <= 1
    /\ hpc \in {"done", "crashed"} =>
          pubCount = IF hfault \in {"fill", "create", "pack", "dump"} THEN 0 ELSE 1

\* C8: the document's event_name is the record's user-defined name for a
\* user-defined event and the standard name of the event type otherwise.
C8_EventName ==
    (Formatted /\ json # NoDoc) =>
        json.event_name =
            [type |-> "string",
             value |-> IF hrec.event_type = "AST_CEL_USER_DEFINED"
                       THEN hrec.user_defined_name
                       ELSE ast_cel_get_type_name(hrec.event_type)]

C8_Witness ==
    /\ hpc = "formatted"
    /\ hrec.event_type = "AST_CEL_USER_DEFINED"
    /\ hrec.user_defined_name = <<"custom_x">>
    /\ json # NoDoc
    /\ json.event_name = [type |-> "string", value |-> <<"custom_x">>]

\* C9: a handler that has been entered holds a reference on an installed
\* configuration: its conf is never NULL.
C9_HandlerAlwaysHasConfig ==
    hpc # "idle" => hconf # NULL

\* C10: when the handler returns, every reference it acquired (configuration
\* snapshot, document, dumped string, extra value) has been released exactly
\* once.
C10_ReferencesReleasedOnce ==
    hpc = "done" => rel = acq

====
